---------------------------- MODULE Spec2Model ----------------------------
(***************************************************************************)
(* State-machine model of src/main/drivers/accgyro_mpu.c: MPU gyro/acc     *)
(* detection (mpuDetect, detectSPISensorsAndUpdateDetectionResult,         *)
(* mpu6050FindRevision), the data-ready latch (mpuIntExtiHandler,          *)
(* mpuCheckDataReady, mpuGyroSetIsrUpdate, mpuGyroInit) and the raw sample *)
(* readers (mpuGyroRead, mpuAccRead).                                      *)
(*                                                                         *)
(* Two execution contexts are modelled: the main loop, which runs the      *)
(* exported functions one at a time, and the EXTI interrupt, which may     *)
(* preempt the main loop between any two accesses of shared memory that    *)
(* are not inside an ATOMIC_BLOCK.                                         *)
(***************************************************************************)
EXTENDS Integers, Sequences, FiniteSets, TLC

VARIABLES
    build,                \* the preprocessor macros defined for this target
    phase,                \* "boot" | "detected" | "run" | "fatal"
    gyro,                 \* gyroDev_t
    acc,                  \* accDev_t
    mpuDetectionResult,   \* file-scope object named at line 262
    mpuConfiguration,     \* file-scope object named at lines 263-265
    pollPc,               \* position of the main loop inside mpuCheckDataReady
    isrPc,                \* position of the interrupt inside mpuIntExtiHandler
    edgeSinceTrue,        \* history: an edge has fired since the last poll
                          \* that returned true
    edges,                \* history: the number of edges handled so far
    trues,                \* history: the number of polls that returned true
    op,                   \* history: the function whose step was taken last
    ret,                  \* history: what that step returned
    calls,                \* history: the calls that function made, in order
    writes                \* history: the device fields it wrote, in order

vars == <<build, phase, gyro, acc, mpuDetectionResult, mpuConfiguration,
          pollPc, isrPc, edgeSinceTrue, edges, trues, op, ret, calls, writes>>

---------------------------------------------------------------------------
(* Program constants.                                                      *)

MPU6500_WHO_AM_I_CONST == 112
MPUx0x0_WHO_AM_I_CONST == 104
MPU_INQUIRY_MASK == 126

(* Bound of the model: the number of interrupt edges followed.             *)
MaxEdges == 2

(* Bitwise operators on naturals, computed bit by bit.                     *)
RECURSIVE BitAnd(_, _)
BitAnd(a, b) ==
    IF a = 0 \/ b = 0 THEN 0
    ELSE (a % 2) * (b % 2) + 2 * BitAnd(a \div 2, b \div 2)

RECURSIVE BitOr(_, _)
BitOr(a, b) ==
    IF a = 0 THEN b
    ELSE IF b = 0 THEN a
    ELSE (IF (a % 2) + (b % 2) > 0 THEN 1 ELSE 0) + 2 * BitOr(a \div 2, b \div 2)

RECURSIVE Shl(_, _)
Shl(a, n) == IF n = 0 THEN a ELSE Shl(2 * a, n - 1)

U8(x) == x % 256

(* (int16_t)v for v in 0..65535                                            *)
I16(v) == IF v % 65536 >= 32768 THEN (v % 65536) - 65536 ELSE v % 65536

---------------------------------------------------------------------------
(* Values the collaborators can answer with.                               *)

\* identity bytes: 0x00 0x68 0x69 0xE9 0x70 0xF1 0x6A 0xFF
ByteSamples == {0, 104, 105, 233, 112, 241, 106, 255}

\* bytes at the odd offsets of the revision burst: 0x00 0x01 0xFE 0xFF
RevisionBytes == {0, 1, 254, 255}

\* product-id bytes: every low nibble, under the high nibbles 0x0 and 0xF
ProductIds == {n + h : n \in 0..15, h \in {0, 240}}

\* 6-byte sample bursts
Bursts ==
    { <<0, 0, 0, 0, 0, 0>>,
      <<18, 52, 128, 0, 255, 255>>,
      <<127, 255, 255, 254, 0, 1>> }

Callbacks == {"NULL", "updateA", "updateB"}

SpiProbes ==
    {"mpu6000SpiDetect", "mpu6500SpiDetect", "mpu9250SpiDetect",
     "icm20608SpiDetect", "icm20689SpiDetect"}

\* target configurations
Builds ==
    { {"USE_I2C", "USE_SPI", "USE_EXTI", "USE_MPU_DATA_READY_SIGNAL",
       "ENSURE_MPU_DATA_READY_IS_LOW",
       "USE_GYRO_SPI_MPU6000", "USE_GYRO_SPI_MPU6500", "USE_GYRO_SPI_MPU9250",
       "USE_GYRO_SPI_ICM20608", "USE_GYRO_SPI_ICM20689"},
      {"USE_SPI", "USE_EXTI", "USE_MPU_DATA_READY_SIGNAL", "STM32F7",
       "USE_GYRO_SPI_MPU6500", "USE_GYRO_SPI_ICM20689"},
      {"USE_I2C"} }

---------------------------------------------------------------------------
(* Device records.                                                         *)

NoConfiguration ==
    [ readFn |-> "NULL", writeFn |-> "NULL", slowreadFn |-> "NULL",
      verifywriteFn |-> "NULL", resetFn |-> "NULL", gyroReadXRegister |-> "0" ]

NoDetectionResult ==
    [ sensor |-> "MPU_NONE", resolution |-> "MPU_HALF_RESOLUTION" ]

NewGyro(extiConfig) ==
    [ mpuDetectionResult |-> NoDetectionResult,
      mpuConfiguration   |-> NoConfiguration,
      mpuIntExtiConfig   |-> extiConfig,
      exti               |-> "NULL",
      dataReady          |-> FALSE,
      update             |-> "NULL",
      gyroADCRaw         |-> <<0, 0, 0>> ]

NewAcc == [ ADCRaw |-> <<0, 0, 0>> ]

\* one entry of the call history
CallRec(fn, reg, len, ack, data) ==
    [ fn |-> fn, reg |-> reg, len |-> len, ack |-> ack, data |-> data ]

Init ==
    /\ build \in Builds
    /\ phase = "boot"
    /\ \E extiConfig \in {"NULL", "MPU_INT_EXTI"} : gyro = NewGyro(extiConfig)
    /\ acc = NewAcc
    /\ mpuDetectionResult = NoDetectionResult
    /\ mpuConfiguration = NoConfiguration
    /\ pollPc = "idle"
    /\ isrPc = "idle"
    /\ edgeSinceTrue = FALSE
    /\ edges = 0
    /\ trues = 0
    /\ op = "none"
    /\ ret = "void"
    /\ calls = <<>>
    /\ writes = <<>>

---------------------------------------------------------------------------
(* The activation frame of one call: the objects it can write and the      *)
(* history of what it did.                                                 *)

Frame ==
    [ gyro |-> gyro, acc |-> acc,
      gDet |-> mpuDetectionResult, gConf |-> mpuConfiguration,
      calls |-> <<>>, writes |-> <<>>, halted |-> FALSE ]

Call(f, c) == [f EXCEPT !.calls = Append(@, c)]

SetSensor(f, v) ==
    [f EXCEPT !.gyro.mpuDetectionResult.sensor = v,
              !.writes = Append(@, "sensor")]

SetResolution(f, v) ==
    [f EXCEPT !.gyro.mpuDetectionResult.resolution = v,
              !.writes = Append(@, "resolution")]

SetConf(f, field, v) ==
    [f EXCEPT !.gyro.mpuConfiguration[field] = v,
              !.writes = Append(@, field)]

\* failureMode() does not return: the system stops in the failure state
failureMode(f, mode) ==
    [Call(f, CallRec("failureMode", mode, 0, TRUE, <<>>)) EXCEPT !.halted = TRUE]

---------------------------------------------------------------------------
(* mpu6050FindRevision                                                     *)

\* readBuffer is 0-based in C: readBuffer[k] is rb[k + 1]
\* (variant) the three low bits taken in the opposite order
RevisionCodeReversed(rb) ==
    U8(BitOr(BitOr(Shl(BitAnd(rb[2], 1), 2), Shl(BitAnd(rb[4], 1), 1)),
             BitAnd(rb[6], 1)))

RevisionCode(rb) ==
    U8(BitOr(BitOr(Shl(BitAnd(rb[6], 1), 2), Shl(BitAnd(rb[4], 1), 1)),
             BitAnd(rb[2], 1)))

ProductRevision(productId) == U8(BitAnd(productId, 15))

\* (variant) revision 2 classified like revision 1
RevisionBranchTwoIsHalf(f, revision) ==
    IF (revision = 1) \/ (revision = 2) THEN SetResolution(f, "MPU_HALF_RESOLUTION")
    ELSE IF (revision = 3) \/ (revision = 7)
         THEN SetResolution(f, "MPU_FULL_RESOLUTION")
    ELSE failureMode(f, "FAILURE_ACC_INCOMPATIBLE")

RevisionBranch(f, revision) ==
    IF revision = 1 THEN SetResolution(f, "MPU_HALF_RESOLUTION")
    ELSE IF revision = 2 THEN SetResolution(f, "MPU_FULL_RESOLUTION")
    ELSE IF (revision = 3) \/ (revision = 7)
         THEN SetResolution(f, "MPU_FULL_RESOLUTION")
    ELSE failureMode(f, "FAILURE_ACC_INCOMPATIBLE")

ProductBranch(f, revision) ==
    IF revision = 0 THEN failureMode(f, "FAILURE_ACC_INCOMPATIBLE")
    ELSE IF revision = 4 THEN SetResolution(f, "MPU_HALF_RESOLUTION")
    ELSE SetResolution(f, "MPU_FULL_RESOLUTION")

\* rb, productId: the bytes found in readBuffer and productId after each read
\* (whatever the read left there: its ack is not looked at)
mpu6050FindRevision(f, ackR, rb, ackP, productId) ==
    LET f0 == Call(f, CallRec("mpu6050FindRevision", "", 0, TRUE, <<>>))
        f1 == Call(f0, CallRec(f0.gyro.mpuConfiguration.readFn,
                               "MPU_RA_XA_OFFS_H", 6, ackR, rb))
        revision == RevisionCode(rb)
    IN  IF revision # 0
        THEN RevisionBranch(f1, revision)
        ELSE LET f2 == Call(f1, CallRec(f1.gyro.mpuConfiguration.readFn,
                                        "MPU_RA_PRODUCT_ID", 1, ackP, <<productId>>))
             IN  ProductBranch(f2, ProductRevision(productId))

RevisionBursts ==
    { <<255, a, 0, b, 254, c>> : a \in RevisionBytes, b \in RevisionBytes,
                                 c \in RevisionBytes }

---------------------------------------------------------------------------
(* detectSPISensorsAndUpdateDetectionResult                                *)

SpiProbeOrder ==
    << "mpu6000SpiDetect", "mpu6500SpiDetect", "mpu9250SpiDetect",
       "icm20608SpiDetect", "icm20689SpiDetect" >>

ProbeMacro(p) ==
    CASE p = "mpu6000SpiDetect"  -> "USE_GYRO_SPI_MPU6000"
      [] p = "mpu6500SpiDetect"  -> "USE_GYRO_SPI_MPU6500"
      [] p = "mpu9250SpiDetect"  -> "USE_GYRO_SPI_MPU9250"
      [] p = "icm20608SpiDetect" -> "USE_GYRO_SPI_ICM20608"
      [] p = "icm20689SpiDetect" -> "USE_GYRO_SPI_ICM20689"

Mpu6000Claim(f) ==
    LET a == SetSensor(f, "MPU_60x0_SPI")
        b == SetConf(a, "gyroReadXRegister", "MPU_RA_GYRO_XOUT_H")
        c == SetConf(b, "readFn", "mpu6000ReadRegister")
    IN  SetConf(c, "writeFn", "mpu6000WriteRegister")

\* (variant) the secondary claim also writes the resolution
Mpu6500ClaimSetsResolution(f) ==
    SetResolution(
        LET a == SetSensor(f, "MPU_65xx_SPI")
            b == SetConf(a, "gyroReadXRegister", "MPU_RA_GYRO_XOUT_H")
            c == SetConf(b, "readFn", "mpu6500ReadRegister")
        IN  SetConf(c, "writeFn", "mpu6500WriteRegister"),
        "MPU_FULL_RESOLUTION")

Mpu6500Claim(f) ==
    LET a == SetSensor(f, "MPU_65xx_SPI")
        b == SetConf(a, "gyroReadXRegister", "MPU_RA_GYRO_XOUT_H")
        c == SetConf(b, "readFn", "mpu6500ReadRegister")
    IN  SetConf(c, "writeFn", "mpu6500WriteRegister")

Mpu9250Claim(f) ==
    LET a == SetSensor(f, "MPU_9250_SPI")
        b == SetConf(a, "gyroReadXRegister", "MPU_RA_GYRO_XOUT_H")
        c == SetConf(b, "readFn", "mpu9250ReadRegister")
        d == SetConf(c, "slowreadFn", "mpu9250SlowReadRegister")
        e == SetConf(d, "verifywriteFn", "verifympu9250WriteRegister")
        g == SetConf(e, "writeFn", "mpu9250WriteRegister")
    IN  SetConf(g, "resetFn", "mpu9250ResetGyro")

\* this branch names the file-scope mpuDetectionResult and mpuConfiguration,
\* not the fields of *gyro
Icm20608Claim(f) ==
    [f EXCEPT !.gDet.sensor = "ICM_20608_SPI",
              !.gConf.gyroReadXRegister = "MPU_RA_GYRO_XOUT_H",
              !.gConf.readFn = "icm20608ReadRegister",
              !.gConf.writeFn = "icm20608WriteRegister"]

Icm20689Claim(f) ==
    LET a == SetSensor(f, "ICM_20689_SPI")
        b == SetConf(a, "gyroReadXRegister", "MPU_RA_GYRO_XOUT_H")
        c == SetConf(b, "readFn", "icm20689ReadRegister")
    IN  SetConf(c, "writeFn", "icm20689WriteRegister")

SpiClaim(f, p) ==
    CASE p = "mpu6000SpiDetect"  -> Mpu6000Claim(f)
      [] p = "mpu6500SpiDetect"  -> Mpu6500Claim(f)
      [] p = "mpu9250SpiDetect"  -> Mpu9250Claim(f)
      [] p = "icm20608SpiDetect" -> Icm20608Claim(f)
      [] p = "icm20689SpiDetect" -> Icm20689Claim(f)

\* claims: the probes that answer true when called
RECURSIVE DetectSpiFrom(_, _, _)
DetectSpiFrom(f, i, claims) ==
    IF i > Len(SpiProbeOrder) THEN f
    ELSE LET p == SpiProbeOrder[i] IN
         IF ProbeMacro(p) \notin build THEN DetectSpiFrom(f, i + 1, claims)
         ELSE LET f1 == Call(f, CallRec(p, "", 0, p \in claims, <<>>)) IN
              IF p \in claims THEN SpiClaim(f1, p)
              ELSE DetectSpiFrom(f1, i + 1, claims)

detectSPISensorsAndUpdateDetectionResult(f, claims) ==
    DetectSpiFrom(f, 1, claims)

---------------------------------------------------------------------------
(* mpuDetect                                                               *)

\* the end of a main-loop call: its frame becomes the state
Complete(f, name, r, nextPhase) ==
    /\ gyro' = f.gyro
    /\ acc' = f.acc
    /\ mpuDetectionResult' = f.gDet
    /\ mpuConfiguration' = f.gConf
    /\ calls' = f.calls
    /\ writes' = f.writes
    /\ op' = name
    /\ ret' = r
    /\ phase' = IF f.halted THEN "fatal" ELSE nextPhase

\* (variant) only the read function installed
InstallI2CReadOnly(f) == SetConf(f, "readFn", "mpuReadRegisterI2C")

InstallI2C(f) ==
    SetConf(SetConf(f, "readFn", "mpuReadRegisterI2C"),
            "writeFn", "mpuWriteRegisterI2C")

Inquiry(b) == U8(BitAnd(b, MPU_INQUIRY_MASK))

LegacyMatch(ack, inquiryResult) ==
    ack /\ inquiryResult = MPUx0x0_WHO_AM_I_CONST

\* (variant) the burst register left at the default
LegacyClaimKeepsRegister(f) == SetSensor(f, "MPU_3050")

LegacyClaim(f) ==
    SetConf(SetSensor(f, "MPU_3050"), "gyroReadXRegister", "MPU3050_GYRO_OUT")

\* (variant) the I2C functions installed before the ack is looked at
DetectSecondaryAfterInstall(f) ==
    IF "USE_SPI" \in build
    THEN \E claims \in SUBSET SpiProbes :
            Complete(detectSPISensorsAndUpdateDetectionResult(
                         SetConf(SetConf(f, "readFn", "mpuReadRegisterI2C"),
                                 "writeFn", "mpuWriteRegisterI2C"), claims),
                     "mpuDetect", "void", "detected")
    ELSE Complete(SetConf(SetConf(f, "readFn", "mpuReadRegisterI2C"),
                          "writeFn", "mpuWriteRegisterI2C"),
                  "mpuDetect", "void", "detected")

\* lines 297-306, ack false
DetectSecondary(f) ==
    IF "USE_SPI" \in build
    THEN \E claims \in SUBSET SpiProbes :
            Complete(detectSPISensorsAndUpdateDetectionResult(f, claims),
                     "mpuDetect", "void", "detected")
    ELSE Complete(f, "mpuDetect", "void", "detected")

\* (variant) an unrecognised identity byte escalated to failureMode
DetectIdentityFatal(f, sig) ==
    IF sig = MPUx0x0_WHO_AM_I_CONST
    THEN \E ackR \in BOOLEAN, rb \in RevisionBursts,
            ackP \in BOOLEAN, productId \in ProductIds :
            Complete(mpu6050FindRevision(SetSensor(f, "MPU_60x0"),
                                         ackR, rb, ackP, productId),
                     "mpuDetect", "void", "detected")
    ELSE IF sig = MPU6500_WHO_AM_I_CONST
    THEN Complete(SetSensor(f, "MPU_65xx_I2C"), "mpuDetect", "void", "detected")
    ELSE Complete(failureMode(f, "FAILURE_ACC_INCOMPATIBLE"),
                  "mpuDetect", "void", "detected")

\* lines 320-328
DetectIdentity(f, sig) ==
    IF sig = MPUx0x0_WHO_AM_I_CONST
    THEN \E ackR \in BOOLEAN, rb \in RevisionBursts,
            ackP \in BOOLEAN, productId \in ProductIds :
            Complete(mpu6050FindRevision(SetSensor(f, "MPU_60x0"),
                                         ackR, rb, ackP, productId),
                     "mpuDetect", "void", "detected")
    ELSE IF sig = MPU6500_WHO_AM_I_CONST
    THEN Complete(SetSensor(f, "MPU_65xx_I2C"), "mpuDetect", "void", "detected")
    ELSE Complete(f, "mpuDetect", "void", "detected")

\* (variant) no return after the legacy branch
DetectPrimaryNoReturn(f, sig) ==
    LET f1 == InstallI2C(f)
        f2 == SetConf(f1, "gyroReadXRegister", "MPU_RA_GYRO_XOUT_H")
    IN  \E ack \in BOOLEAN, inq \in ByteSamples :
            LET f3 == Call(f2, CallRec("mpuReadRegisterI2C",
                                       "MPU_RA_WHO_AM_I_LEGACY", 1, ack,
                                       IF ack THEN <<inq>> ELSE <<>>))
                inquiryResult == Inquiry(inq)
            IN  IF LegacyMatch(ack, inquiryResult)
                THEN DetectIdentity(LegacyClaim(f3), Inquiry(sig))
                ELSE DetectIdentity(f3, Inquiry(sig))

\* lines 297-299 and 308-328, ack true
DetectPrimary(f, sig) ==
    LET f1 == InstallI2C(f)
        f2 == SetConf(f1, "gyroReadXRegister", "MPU_RA_GYRO_XOUT_H")
    IN  \E ack \in BOOLEAN, inq \in ByteSamples :
            LET f3 == Call(f2, CallRec("mpuReadRegisterI2C",
                                       "MPU_RA_WHO_AM_I_LEGACY", 1, ack,
                                       IF ack THEN <<inq>> ELSE <<>>))
                inquiryResult == Inquiry(inq)
            IN  IF LegacyMatch(ack, inquiryResult)
                THEN Complete(LegacyClaim(f3), "mpuDetect", "void", "detected")
                ELSE DetectIdentity(f3, Inquiry(sig))

mpuDetect ==
    /\ phase = "boot"
    /\ LET f0 == Call(Frame, CallRec("delay", "", 0, TRUE, <<>>)) IN
       IF "USE_I2C" \notin build
       THEN DetectSecondary(f0)
       ELSE \E ack \in BOOLEAN, sig \in ByteSamples :
               LET f1 == Call(f0, CallRec("mpuReadRegisterI2C", "MPU_RA_WHO_AM_I",
                                          1, ack, IF ack THEN <<sig>> ELSE <<>>))
               IN  IF ack THEN DetectPrimary(f1, sig) ELSE DetectSecondary(f1)
    /\ UNCHANGED <<build, pollPc, isrPc, edgeSinceTrue, edges, trues>>

---------------------------------------------------------------------------
(* mpuGyroInit, mpuIntExtiInit                                             *)

ExtiCalls(io) ==
    IF "STM32F7" \in build
    THEN << CallRec("IOInit", io, 0, TRUE, <<>>),
            CallRec("EXTIHandlerInit", "mpuIntExtiHandler", 0, TRUE, <<>>),
            CallRec("EXTIConfig", io, 0, TRUE, <<>>) >>
    ELSE << CallRec("IOInit", io, 0, TRUE, <<>>),
            CallRec("IOConfigGPIO", io, 0, TRUE, <<>>),
            CallRec("EXTIHandlerInit", "mpuIntExtiHandler", 0, TRUE, <<>>),
            CallRec("EXTIConfig", io, 0, TRUE, <<>>),
            CallRec("EXTIEnable", io, 0, TRUE, <<>>) >>

\* (variant) the handler registered whatever the reference and the level
mpuIntExtiInitAlwaysArms(f, status) ==
    IF ~({"USE_MPU_DATA_READY_SIGNAL", "USE_EXTI"} \subseteq build) THEN f
    ELSE LET io == f.gyro.mpuIntExtiConfig
             f1 == Call(f, CallRec("IOGetByTag", io, 0, TRUE, <<>>))
             f2 == IF "ENSURE_MPU_DATA_READY_IS_LOW" \in build
                   THEN Call(f1, CallRec("IORead", io, 0, TRUE, <<status>>))
                   ELSE f1
         IN  [f2 EXCEPT !.calls = @ \o ExtiCalls(io),
                        !.gyro.exti = "mpuIntExtiHandler",
                        !.writes = Append(@, "exti")]

\* status: the level IORead finds on the interrupt line
mpuIntExtiInit(f, status) ==
    IF f.gyro.mpuIntExtiConfig = "NULL" THEN f
    ELSE IF ~({"USE_MPU_DATA_READY_SIGNAL", "USE_EXTI"} \subseteq build) THEN f
    ELSE LET io == f.gyro.mpuIntExtiConfig
             f1 == Call(f, CallRec("IOGetByTag", io, 0, TRUE, <<>>))
             f2 == IF "ENSURE_MPU_DATA_READY_IS_LOW" \in build
                   THEN Call(f1, CallRec("IORead", io, 0, TRUE, <<status>>))
                   ELSE f1
         IN  IF "ENSURE_MPU_DATA_READY_IS_LOW" \in build /\ status # 0
             THEN f2
             ELSE [f2 EXCEPT !.calls = @ \o ExtiCalls(io),
                             !.gyro.exti = "mpuIntExtiHandler",
                             !.writes = Append(@, "exti")]

mpuGyroInit ==
    /\ phase = "detected"
    /\ \E status \in {0, 1} :
          Complete(mpuIntExtiInit(Frame, status), "mpuGyroInit", "void", "run")
    /\ UNCHANGED <<build, pollPc, isrPc, edgeSinceTrue, edges, trues>>

---------------------------------------------------------------------------
(* mpuGyroRead, mpuAccRead                                                 *)

\* the main loop is between two calls and no interrupt handler is running
MainIdle == phase = "run" /\ pollPc = "idle" /\ isrPc = "idle"

\* (variant) the low byte taken first
SampleLittleEndian(data, k) == I16(BitOr(Shl(data[k + 2], 8), data[k + 1]))

\* (int16_t)((data[k] << 8) | data[k + 1]), data 0-based in C
Sample(data, k) == I16(BitOr(Shl(data[k + 1], 8), data[k + 2]))

Decode(data) == << Sample(data, 0), Sample(data, 2), Sample(data, 4) >>

\* the accelerometer shares the dispatch table of its gyro
AccConfiguration(f) == f.gyro.mpuConfiguration

\* (variant) a read that is not acknowledged falls back to the legacy register
GyroReadFallsBack(f, ack, data) ==
    LET f1 == Call(f, CallRec(f.gyro.mpuConfiguration.readFn,
                              f.gyro.mpuConfiguration.gyroReadXRegister, 6, ack,
                              IF ack THEN data ELSE <<>>))
    IN  IF ~ack THEN SetConf(f1, "gyroReadXRegister", "MPU3050_GYRO_OUT")
        ELSE [f1 EXCEPT !.gyro.gyroADCRaw = Decode(data),
                        !.writes = Append(@, "gyroADCRaw")]

\* (variant) the sample buffer zeroed when the read is not acknowledged
GyroReadZeroOnNack(f, ack, data) ==
    LET f1 == Call(f, CallRec(f.gyro.mpuConfiguration.readFn,
                              f.gyro.mpuConfiguration.gyroReadXRegister, 6, ack,
                              IF ack THEN data ELSE <<>>))
    IN  IF ~ack THEN [f1 EXCEPT !.gyro.gyroADCRaw = <<0, 0, 0>>,
                                !.writes = Append(@, "gyroADCRaw")]
        ELSE [f1 EXCEPT !.gyro.gyroADCRaw = Decode(data),
                        !.writes = Append(@, "gyroADCRaw")]

GyroRead(f, ack, data) ==
    LET f1 == Call(f, CallRec(f.gyro.mpuConfiguration.readFn,
                              f.gyro.mpuConfiguration.gyroReadXRegister, 6, ack,
                              IF ack THEN data ELSE <<>>))
    IN  IF ~ack THEN f1
        ELSE [f1 EXCEPT !.gyro.gyroADCRaw = Decode(data),
                        !.writes = Append(@, "gyroADCRaw")]

\* (variant) a second burst issued when the first is not acknowledged
AccReadRetries(f, ack, data) ==
    LET f1 == Call(f, CallRec(AccConfiguration(f).readFn,
                              "MPU_RA_ACCEL_XOUT_H", 6, ack,
                              IF ack THEN data ELSE <<>>))
    IN  IF ~ack
        THEN Call(f1, CallRec(AccConfiguration(f).readFn,
                              "MPU_RA_ACCEL_XOUT_H", 6, ack, <<>>))
        ELSE [f1 EXCEPT !.acc.ADCRaw = Decode(data),
                        !.writes = Append(@, "ADCRaw")]

AccRead(f, ack, data) ==
    LET f1 == Call(f, CallRec(AccConfiguration(f).readFn,
                              "MPU_RA_ACCEL_XOUT_H", 6, ack,
                              IF ack THEN data ELSE <<>>))
    IN  IF ~ack THEN f1
        ELSE [f1 EXCEPT !.acc.ADCRaw = Decode(data),
                        !.writes = Append(@, "ADCRaw")]

ReadResult(ack) == IF ~ack THEN "false" ELSE "true"

mpuGyroRead ==
    /\ MainIdle
    /\ gyro.mpuConfiguration.readFn # "NULL"
    /\ \E ack \in BOOLEAN, data \in Bursts :
          Complete(GyroRead(Frame, ack, data), "mpuGyroRead", ReadResult(ack), "run")
    /\ UNCHANGED <<build, pollPc, isrPc, edgeSinceTrue, edges, trues>>

mpuAccRead ==
    /\ MainIdle
    /\ AccConfiguration(Frame).readFn # "NULL"
    /\ \E ack \in BOOLEAN, data \in Bursts :
          Complete(AccRead(Frame, ack, data), "mpuAccRead", ReadResult(ack), "run")
    /\ UNCHANGED <<build, pollPc, isrPc, edgeSinceTrue, edges, trues>>

---------------------------------------------------------------------------
(* The data-ready latch: mpuIntExtiHandler, mpuCheckDataReady,             *)
(* mpuGyroSetIsrUpdate                                                     *)

\* the count of true polls, followed up to one past the bound on the edges
CountTrue(n) == IF n <= MaxEdges THEN n + 1 ELSE n

\* the interrupt can be taken: the handler is registered and not running
IsrCanFire == gyro.exti = "mpuIntExtiHandler" /\ isrPc = "idle"

\* (variant) the edge also zeroes the raw gyro samples
mpuIntExtiHandlerClearsSamples ==
    /\ IsrCanFire
    /\ edges < MaxEdges
    /\ gyro' = [gyro EXCEPT !.dataReady = TRUE, !.gyroADCRaw = <<0, 0, 0>>]
    /\ isrPc' = "update"
    /\ edgeSinceTrue' = TRUE
    /\ edges' = edges + 1
    /\ op' = "mpuIntExtiHandler"
    /\ ret' = "busy"
    /\ calls' = <<>>
    /\ writes' = <<"dataReady">>
    /\ UNCHANGED <<build, phase, acc, mpuDetectionResult, mpuConfiguration, pollPc,
                   trues>>

\* lines 116-117: the edge sets the latch
mpuIntExtiHandler ==
    /\ IsrCanFire
    /\ edges < MaxEdges
    /\ gyro' = [gyro EXCEPT !.dataReady = TRUE]
    /\ isrPc' = "update"
    /\ edgeSinceTrue' = TRUE
    /\ edges' = edges + 1
    /\ op' = "mpuIntExtiHandler"
    /\ ret' = "busy"
    /\ calls' = <<>>
    /\ writes' = <<"dataReady">>
    /\ UNCHANGED <<build, phase, acc, mpuDetectionResult, mpuConfiguration, pollPc,
                   trues>>

\* (variant) the handler returns without invoking the callback
mpuIntExtiHandlerUpdateNoCallback ==
    /\ isrPc = "update"
    /\ isrPc' = "idle"
    /\ op' = "mpuIntExtiHandler"
    /\ ret' = "void"
    /\ calls' = <<>>
    /\ writes' = <<"dataReady">>
    /\ UNCHANGED <<build, phase, gyro, acc, mpuDetectionResult, mpuConfiguration,
                   pollPc, edgeSinceTrue, edges, trues>>

\* lines 118-120: the client callback, then the return from the interrupt
mpuIntExtiHandlerUpdate ==
    /\ isrPc = "update"
    /\ isrPc' = "idle"
    /\ op' = "mpuIntExtiHandler"
    /\ ret' = "void"
    /\ calls' = IF gyro.update # "NULL"
                THEN <<CallRec(gyro.update, "gyro", 0, TRUE, <<>>)>>
                ELSE <<>>
    /\ writes' = <<"dataReady">>
    /\ UNCHANGED <<build, phase, gyro, acc, mpuDetectionResult, mpuConfiguration,
                   pollPc, edgeSinceTrue, edges, trues>>

\* (variant) the test taken as true whatever the latch holds
mpuCheckDataReadyAlwaysTrue ==
    /\ MainIdle
    /\ op' = "mpuCheckDataReady"
    /\ calls' = <<>>
    /\ writes' = <<>>
    /\ pollPc' = "clear"
    /\ ret' = "busy"
    /\ UNCHANGED <<build, phase, gyro, acc, mpuDetectionResult, mpuConfiguration,
                   isrPc, edgeSinceTrue, edges, trues>>

\* line 215: the test of the latch; lines 218-221 when it is clear
mpuCheckDataReady ==
    /\ MainIdle
    /\ op' = "mpuCheckDataReady"
    /\ calls' = <<>>
    /\ writes' = <<>>
    /\ IF gyro.dataReady
       THEN /\ pollPc' = "clear"
            /\ ret' = "busy"
       ELSE /\ pollPc' = "idle"
            /\ ret' = "false"
    /\ UNCHANGED <<build, phase, gyro, acc, mpuDetectionResult, mpuConfiguration,
                   isrPc, edgeSinceTrue, edges, trues>>

\* (variant) true returned without clearing the latch
mpuCheckDataReadyKeepsLatch ==
    /\ phase = "run" /\ pollPc = "clear" /\ isrPc = "idle"
    /\ pollPc' = "idle"
    /\ op' = "mpuCheckDataReady"
    /\ ret' = "true"
    /\ calls' = <<>>
    /\ writes' = <<>>
    /\ edgeSinceTrue' = FALSE
    /\ trues' = CountTrue(trues)
    /\ UNCHANGED <<build, phase, gyro, acc, mpuDetectionResult, mpuConfiguration,
                   isrPc, edges>>

\* lines 216-217 and 221: the latch is cleared and true returned
mpuCheckDataReadyClear ==
    /\ phase = "run" /\ pollPc = "clear" /\ isrPc = "idle"
    /\ gyro' = [gyro EXCEPT !.dataReady = FALSE]
    /\ pollPc' = "idle"
    /\ op' = "mpuCheckDataReady"
    /\ ret' = "true"
    /\ calls' = <<>>
    /\ writes' = <<"dataReady">>
    /\ edgeSinceTrue' = FALSE
    /\ trues' = CountTrue(trues)
    /\ UNCHANGED <<build, phase, acc, mpuDetectionResult, mpuConfiguration,
                   isrPc, edges>>

\* ATOMIC_BLOCK(NVIC_PRIO_MPU_INT_EXTI): one step the interrupt cannot split
mpuGyroSetIsrUpdate ==
    /\ MainIdle
    /\ \E updateFn \in Callbacks :
          /\ gyro' = [gyro EXCEPT !.update = updateFn]
          /\ op' = "mpuGyroSetIsrUpdate"
          /\ ret' = "void"
          /\ calls' = <<>>
          /\ writes' = <<"update">>
    /\ UNCHANGED <<build, phase, acc, mpuDetectionResult, mpuConfiguration,
                   pollPc, isrPc, edgeSinceTrue, edges, trues>>

---------------------------------------------------------------------------
Next ==
    \/ mpuDetect
    \/ mpuGyroInit
    \/ mpuGyroRead
    \/ mpuAccRead
    \/ mpuIntExtiHandler
    \/ mpuIntExtiHandlerUpdate
    \/ mpuCheckDataReady
    \/ mpuCheckDataReadyClear
    \/ mpuGyroSetIsrUpdate

Spec == Init /\ [][Next]_vars

---------------------------------------------------------------------------
(* Reading the history of the last call.                                   *)

CallsAt(reg) == SelectSeq(calls, LAMBDA c : c.reg = reg)

Called(fn) == \E i \in 1..Len(calls) : calls[i].fn = fn

CallCount(fn) == Cardinality({i \in 1..Len(calls) : calls[i].fn = fn})

SpiCalls == SelectSeq(calls, LAMBDA c : c.fn \in SpiProbes)

\* x & 0x7E by arithmetic: bit 0 and bit 7 dropped
Masked(x) == 2 * ((x \div 2) % 64)

\* mpuDetect has just run, to its return or to failureMode
AfterDetect == op = "mpuDetect"

DetectReturned == op = "mpuDetect" /\ phase = "detected"

PrimaryAcked ==
    /\ AfterDetect
    /\ CallsAt("MPU_RA_WHO_AM_I") # <<>>
    /\ CallsAt("MPU_RA_WHO_AM_I")[1].ack

PrimaryNotAcked == AfterDetect /\ ~PrimaryAcked

IdentityByte == CallsAt("MPU_RA_WHO_AM_I")[1].data[1]

LegacyMatched ==
    /\ PrimaryAcked
    /\ CallsAt("MPU_RA_WHO_AM_I_LEGACY")[1].ack
    /\ Masked(CallsAt("MPU_RA_WHO_AM_I_LEGACY")[1].data[1]) = MPUx0x0_WHO_AM_I_CONST

SixAxisPath ==
    /\ PrimaryAcked
    /\ ~LegacyMatched
    /\ Masked(IdentityByte) = MPUx0x0_WHO_AM_I_CONST

\* the revision code of the burst the classifier read, by arithmetic
BurstCode ==
    LET b == CallsAt("MPU_RA_XA_OFFS_H")[1].data
    IN  4 * (b[6] % 2) + 2 * (b[4] % 2) + (b[2] % 2)

ProductNibble == CallsAt("MPU_RA_PRODUCT_ID")[1].data[1] % 16

ResolutionSet(v) ==
    /\ gyro.mpuDetectionResult.resolution = v
    /\ writes # <<>> /\ writes[Len(writes)] = "resolution"
    /\ ~Called("failureMode")

Escalated ==
    /\ Called("failureMode")
    /\ \A i \in 1..Len(writes) : writes[i] # "resolution"

ResolutionUntouched ==
    /\ gyro.mpuDetectionResult.resolution = NoDetectionResult.resolution
    /\ \A i \in 1..Len(writes) : writes[i] # "resolution"

---------------------------------------------------------------------------
(* C1..C10                                                                 *)

\* C1: data-ready drain.  Every edge sets the latch; a poll that finds the
\* latch set returns true and leaves it clear, and it is the only poll to
\* return true for the edges before it: while no further edge has fired the
\* latch stays clear, and a poll that finds the latch clear returns false and
\* leaves it clear.
C1_Step ==
    /\ (op' = "mpuIntExtiHandler" /\ isrPc = "idle") => gyro'.dataReady
    /\ (op' = "mpuCheckDataReady" /\ pollPc = "idle" /\ gyro.dataReady)
           => pollPc' = "clear"
    /\ (op' = "mpuCheckDataReady" /\ pollPc = "clear")
           => (ret' = "true" /\ ~gyro'.dataReady /\ edgeSinceTrue)
    /\ (op' = "mpuCheckDataReady" /\ pollPc = "idle" /\ ~gyro.dataReady)
           => (ret' = "false" /\ ~gyro'.dataReady /\ pollPc' = "idle")
    /\ (op' = "mpuCheckDataReady" /\ ret' = "true") => pollPc = "clear"

C1_DataReadyDrain ==
    /\ [](gyro.dataReady => edgeSinceTrue)
    /\ [][C1_Step]_vars

C1_Witness ==
    /\ op = "mpuCheckDataReady" /\ ret = "true"
    /\ ~gyro.dataReady /\ ~edgeSinceTrue
    /\ gyro.update # "NULL"

\* C2: latch accesses are atomic with respect to the interrupt: the handler
\* never runs between mpuCheckDataReady's test of dataReady and its clearing
\* of dataReady.
C2_PollAtomic == pollPc = "clear" => isrPc = "idle"

\* C3: a sample read that is not acknowledged returns false and leaves all
\* three entries of the device's raw sample buffer as they were, for
\* mpuGyroRead and for mpuAccRead.
C3_Step ==
    /\ (op' = "mpuGyroRead" /\ ~calls'[1].ack)
           => (ret' = "false" /\ gyro'.gyroADCRaw = gyro.gyroADCRaw
                              /\ acc'.ADCRaw = acc.ADCRaw)
    /\ (op' = "mpuAccRead" /\ ~calls'[1].ack)
           => (ret' = "false" /\ acc'.ADCRaw = acc.ADCRaw
                              /\ gyro'.gyroADCRaw = gyro.gyroADCRaw)

C3_FailedReadKeepsSamples == [][C3_Step]_vars

C3_Witness ==
    /\ op = "mpuGyroRead" /\ ret = "false" /\ ~calls[1].ack
    /\ gyro.gyroADCRaw # <<0, 0, 0>>
    /\ acc.ADCRaw # <<0, 0, 0>>

\* C4: when the primary WHO_AM_I probe is not acknowledged and no secondary
\* probe claims the device, mpuDetect returns with sensor still MPU_NONE and
\* with no field of the dispatch table written.
C4_NothingDetected ==
    (PrimaryNotAcked /\ \A i \in 1..Len(calls) :
                           calls[i].fn \in SpiProbes => ~calls[i].ack)
        => /\ phase = "detected"
           /\ gyro.mpuDetectionResult.sensor = "MPU_NONE"
           /\ gyro.mpuConfiguration = NoConfiguration
           /\ writes = <<>>

C4_Witness ==
    /\ PrimaryNotAcked
    /\ CallsAt("MPU_RA_WHO_AM_I") # <<>>
    /\ Len(SpiCalls) = 5
    /\ \A i \in 1..Len(SpiCalls) : ~SpiCalls[i].ack
    /\ gyro.mpuDetectionResult.sensor = "MPU_NONE"

\* C5: mpu6050FindRevision maps the revision code
\* (bit0 of byte 5)<<2 | (bit0 of byte 3)<<1 | (bit0 of byte 1) of the burst:
\* 1 gives half resolution; 2, 3, 7 give full; 4, 5, 6 call failureMode;
\* 0 falls back to the low nibble of the product id: 0 calls failureMode,
\* 4 gives half, every other nibble gives full.
C5_RevisionTable ==
    (AfterDetect /\ Called("mpu6050FindRevision")) =>
        /\ CallCount("mpuReadRegisterI2C") >= 3
        /\ BurstCode = 1 => ResolutionSet("MPU_HALF_RESOLUTION")
        /\ BurstCode \in {2, 3, 7} => ResolutionSet("MPU_FULL_RESOLUTION")
        /\ BurstCode \in {4, 5, 6} => Escalated
        /\ BurstCode # 0 => CallsAt("MPU_RA_PRODUCT_ID") = <<>>
        /\ BurstCode = 0 =>
              /\ Len(CallsAt("MPU_RA_PRODUCT_ID")) = 1
              /\ ProductNibble = 0 => Escalated
              /\ ProductNibble = 4 => ResolutionSet("MPU_HALF_RESOLUTION")
              /\ ProductNibble \notin {0, 4} => ResolutionSet("MPU_FULL_RESOLUTION")

C5_Witness ==
    /\ AfterDetect /\ Called("mpu6050FindRevision")
    /\ BurstCode = 0
    /\ CallsAt("MPU_RA_PRODUCT_ID")[1].data[1] = 244
    /\ gyro.mpuDetectionResult.resolution = "MPU_HALF_RESOLUTION"

\* C6: when the primary probe and the legacy probe are acknowledged and the
\* legacy byte masked with 0x7E is the legacy constant, mpuDetect ends with
\* sensor MPU_3050 and the legacy gyro register, whatever the identity byte;
\* mpu6050FindRevision is not called and the resolution is left as it was.
C6_LegacyWins ==
    LegacyMatched =>
        /\ phase = "detected"
        /\ gyro.mpuDetectionResult.sensor = "MPU_3050"
        /\ gyro.mpuConfiguration.gyroReadXRegister = "MPU3050_GYRO_OUT"
        /\ ~Called("mpu6050FindRevision")
        /\ ~Called("failureMode")
        /\ ResolutionUntouched

C6_Witness ==
    /\ LegacyMatched
    /\ IdentityByte = 104
    /\ CallsAt("MPU_RA_WHO_AM_I_LEGACY")[1].data[1] = 233
    /\ gyro.mpuDetectionResult.sensor = "MPU_3050"

\* C7: when the primary probe is acknowledged, the legacy pattern does not
\* match and the identity byte masked with 0x7E is the six-axis constant,
\* mpuDetect calls mpu6050FindRevision exactly once and the device has sensor
\* MPU_60x0, the I2C read and write functions and the standard gyro register;
\* a burst of revision code 2 ends with full resolution.
C7_SixAxis ==
    SixAxisPath =>
        /\ CallCount("mpu6050FindRevision") = 1
        /\ gyro.mpuDetectionResult.sensor = "MPU_60x0"
        /\ gyro.mpuConfiguration.readFn = "mpuReadRegisterI2C"
        /\ gyro.mpuConfiguration.writeFn = "mpuWriteRegisterI2C"
        /\ gyro.mpuConfiguration.gyroReadXRegister = "MPU_RA_GYRO_XOUT_H"
        /\ BurstCode = 2 =>
              /\ phase = "detected"
              /\ gyro.mpuDetectionResult.resolution = "MPU_FULL_RESOLUTION"

C7_Witness ==
    /\ SixAxisPath
    /\ IdentityByte = 233
    /\ BurstCode = 2
    /\ phase = "detected"
    /\ gyro.mpuDetectionResult.resolution = "MPU_FULL_RESOLUTION"

\* C8: once mpu6050FindRevision has called failureMode, no mpuGyroRead or
\* mpuAccRead runs on the device, and the device is not left classified as a
\* six-axis sensor with read and write functions installed.
C8_FatalLeavesNoUsableDevice ==
    phase = "fatal" =>
        /\ op \notin {"mpuGyroRead", "mpuAccRead"}
        /\ ~( /\ gyro.mpuDetectionResult.sensor = "MPU_60x0"
              /\ gyro.mpuConfiguration.readFn # "NULL"
              /\ gyro.mpuConfiguration.writeFn # "NULL" )

\* C9: when the primary probe is not acknowledged, the enabled secondary
\* probes are called in the order MPU6000, MPU6500, MPU9250, ICM20608,
\* ICM20689 up to the first that claims the device; that probe's sensor
\* variant, read and write functions and gyro register are then on the
\* device, no later probe is called and mpu6050FindRevision is not called.
C9_Order ==
    << "mpu6000SpiDetect", "mpu6500SpiDetect", "mpu9250SpiDetect",
       "icm20608SpiDetect", "icm20689SpiDetect" >>

C9_Variant(p) ==
    CASE p = "mpu6000SpiDetect" ->
            [sensor |-> "MPU_60x0_SPI", readFn |-> "mpu6000ReadRegister",
             writeFn |-> "mpu6000WriteRegister"]
      [] p = "mpu6500SpiDetect" ->
            [sensor |-> "MPU_65xx_SPI", readFn |-> "mpu6500ReadRegister",
             writeFn |-> "mpu6500WriteRegister"]
      [] p = "mpu9250SpiDetect" ->
            [sensor |-> "MPU_9250_SPI", readFn |-> "mpu9250ReadRegister",
             writeFn |-> "mpu9250WriteRegister"]
      [] p = "icm20608SpiDetect" ->
            [sensor |-> "ICM_20608_SPI", readFn |-> "icm20608ReadRegister",
             writeFn |-> "icm20608WriteRegister"]
      [] p = "icm20689SpiDetect" ->
            [sensor |-> "ICM_20689_SPI", readFn |-> "icm20689ReadRegister",
             writeFn |-> "icm20689WriteRegister"]

C9_SecondaryProbes ==
    (PrimaryNotAcked /\ "USE_SPI" \in build) =>
        LET enabled == SelectSeq(C9_Order, LAMBDA p : ProbeMacro(p) \in build)
            n == Len(SpiCalls)
        IN  /\ n <= Len(enabled)
            /\ \A i \in 1..n : SpiCalls[i].fn = enabled[i]
            /\ \A i \in 1..(n - 1) : ~SpiCalls[i].ack
            /\ (n < Len(enabled)) => SpiCalls[n].ack
            /\ ~Called("mpu6050FindRevision")
            /\ (n > 0 /\ SpiCalls[n].ack) =>
                  /\ calls[Len(calls)] = SpiCalls[n]
                  /\ gyro.mpuDetectionResult.sensor = C9_Variant(SpiCalls[n].fn).sensor
                  /\ gyro.mpuConfiguration.readFn = C9_Variant(SpiCalls[n].fn).readFn
                  /\ gyro.mpuConfiguration.writeFn = C9_Variant(SpiCalls[n].fn).writeFn
                  /\ gyro.mpuConfiguration.gyroReadXRegister = "MPU_RA_GYRO_XOUT_H"

\* C10 as stated: after mpuDetect returns, readFn and writeFn are both
\* non-null exactly when the sensor is not MPU_NONE.
C10_InstalledIffDetected ==
    DetectReturned =>
        ( ( /\ gyro.mpuConfiguration.readFn # "NULL"
            /\ gyro.mpuConfiguration.writeFn # "NULL" )
          <=> gyro.mpuDetectionResult.sensor # "MPU_NONE" )

\* C10 amended: after mpuDetect returns, a sensor other than MPU_NONE has
\* both readFn and writeFn non-null; a device whose sensor is still MPU_NONE
\* has no read or write function installed unless the primary probe was
\* acknowledged, in which case it has the I2C read and write functions.
C10_DetectedHasFunctions ==
    DetectReturned =>
        /\ gyro.mpuDetectionResult.sensor # "MPU_NONE" =>
              /\ gyro.mpuConfiguration.readFn # "NULL"
              /\ gyro.mpuConfiguration.writeFn # "NULL"
        /\ gyro.mpuDetectionResult.sensor = "MPU_NONE" =>
              IF PrimaryAcked
              THEN /\ gyro.mpuConfiguration.readFn = "mpuReadRegisterI2C"
                   /\ gyro.mpuConfiguration.writeFn = "mpuWriteRegisterI2C"
              ELSE /\ gyro.mpuConfiguration.readFn = "NULL"
                   /\ gyro.mpuConfiguration.writeFn = "NULL"

C10_Witness ==
    /\ DetectReturned
    /\ PrimaryAcked
    /\ gyro.mpuDetectionResult.sensor = "MPU_3050"
    /\ gyro.mpuConfiguration.readFn = "mpuReadRegisterI2C"
    /\ gyro.mpuConfiguration.writeFn = "mpuWriteRegisterI2C"

---------------------------------------------------------------------------
(* C11..C20                                                                *)

WriteCount(field) == Cardinality({i \in 1..Len(writes) : writes[i] = field})

ExtendedPath ==
    /\ PrimaryAcked
    /\ ~LegacyMatched
    /\ Masked(IdentityByte) = MPU6500_WHO_AM_I_CONST

SecondaryClaimed ==
    /\ PrimaryNotAcked
    /\ SpiCalls # <<>>
    /\ SpiCalls[Len(SpiCalls)].ack

SecondarySensors ==
    {"MPU_60x0_SPI", "MPU_65xx_SPI", "MPU_9250_SPI", "ICM_20608_SPI",
     "ICM_20689_SPI"}

\* C11: after mpuDetect has returned, no step of mpuGyroInit, mpuGyroRead,
\* mpuAccRead, mpuCheckDataReady, mpuGyroSetIsrUpdate or the interrupt
\* handler changes the sensor variant, the resolution or any field of the
\* dispatch table.
C11_Step ==
    phase \in {"detected", "run"} =>
        /\ gyro'.mpuDetectionResult = gyro.mpuDetectionResult
        /\ gyro'.mpuConfiguration = gyro.mpuConfiguration

C11_DetectionImmutable == [][C11_Step]_vars

C11_Witness ==
    /\ phase = "run"
    /\ op = "mpuGyroRead" /\ ret = "false"
    /\ edges = MaxEdges /\ trues > 0
    /\ gyro.update # "NULL"
    /\ acc.ADCRaw # <<0, 0, 0>>
    /\ gyro.mpuDetectionResult =
           [sensor |-> "MPU_60x0", resolution |-> "MPU_FULL_RESOLUTION"]
    /\ gyro.mpuConfiguration.gyroReadXRegister = "MPU_RA_GYRO_XOUT_H"

\* C12: in one run of mpuDetect at most one class wins: the sensor variant is
\* written at most once, the class it names is the one whose condition held,
\* and a legacy match wins alone even when the identity byte also matches
\* the six-axis or the extended constant.
C12_OneWinner ==
    AfterDetect =>
        /\ WriteCount("sensor") <= 1
        /\ Cardinality({c \in {"legacy", "sixaxis", "extended", "secondary"} :
               \/ c = "legacy" /\ LegacyMatched
               \/ c = "sixaxis" /\ SixAxisPath
               \/ c = "extended" /\ ExtendedPath
               \/ c = "secondary" /\ SecondaryClaimed}) <= 1
        /\ LegacyMatched => gyro.mpuDetectionResult.sensor = "MPU_3050"
        /\ gyro.mpuDetectionResult.sensor = "MPU_3050" => LegacyMatched
        /\ gyro.mpuDetectionResult.sensor = "MPU_60x0" => SixAxisPath
        /\ gyro.mpuDetectionResult.sensor = "MPU_65xx_I2C" => ExtendedPath
        /\ gyro.mpuDetectionResult.sensor \in SecondarySensors => SecondaryClaimed
        /\ gyro.mpuDetectionResult.sensor = "MPU_NONE" => WriteCount("sensor") = 0

C12_Witness ==
    /\ LegacyMatched
    /\ Masked(IdentityByte) = MPU6500_WHO_AM_I_CONST
    /\ WriteCount("sensor") = 1
    /\ gyro.mpuDetectionResult.sensor = "MPU_3050"

\* C13: the callback pointer is replaced in one step that the interrupt
\* cannot split, and only while no handler is running; each edge first sets
\* the latch and then, before the handler returns, invokes exactly once the
\* callback installed when the edge fired, or nothing when it is null.
C13_Step ==
    /\ op' = "mpuGyroSetIsrUpdate" =>
           /\ isrPc = "idle" /\ isrPc' = "idle"
           /\ gyro' = [gyro EXCEPT !.update = gyro'.update]
    /\ isrPc = "idle" /\ op' = "mpuIntExtiHandler" =>
           /\ isrPc' = "update"
           /\ gyro'.dataReady
           /\ gyro'.update = gyro.update
           /\ calls' = <<>>
    /\ isrPc = "update" =>
           /\ gyro.dataReady
           /\ op' = "mpuIntExtiHandler"
           /\ isrPc' = "idle"
           /\ gyro'.update = gyro.update
           /\ calls' = IF gyro.update = "NULL" THEN <<>>
                       ELSE <<CallRec(gyro.update, "gyro", 0, TRUE, <<>>)>>

C13_CallbackOncePerEdge == [][C13_Step]_vars

C13_Witness ==
    /\ op = "mpuIntExtiHandler" /\ ret = "void"
    /\ Len(calls) = 1
    /\ calls[1].fn = gyro.update
    /\ pollPc = "clear"
    /\ edges > 1

\* C14: the interrupt handler's own code writes no device field but the
\* data-ready latch: across each of its steps the sensor variant, the
\* resolution, the dispatch table, the callback pointer, the interrupt-line
\* reference and the raw sample buffers are unchanged.
C14_Step ==
    op' = "mpuIntExtiHandler" =>
        /\ gyro' = [gyro EXCEPT !.dataReady = TRUE]
        /\ acc' = acc
        /\ mpuDetectionResult' = mpuDetectionResult
        /\ mpuConfiguration' = mpuConfiguration
        /\ \A i \in 1..Len(writes') : writes'[i] = "dataReady"

C14_HandlerWritesLatchOnly == [][C14_Step]_vars

C14_Witness ==
    /\ op = "mpuIntExtiHandler" /\ ret = "void"
    /\ gyro.dataReady
    /\ gyro.update # "NULL"
    /\ gyro.gyroADCRaw # <<0, 0, 0>>
    /\ acc.ADCRaw # <<0, 0, 0>>
    /\ gyro.mpuDetectionResult.sensor = "MPU_3050"

ArmingAborted ==
    /\ op = "mpuGyroInit"
    /\ Called("IORead")
    /\ SelectSeq(calls, LAMBDA c : c.fn = "IORead")[1].data # <<0>>

\* C15: when mpuIntExtiConfig is absent at mpuGyroInit no handler is
\* registered or enabled, the latch is never set and every later
\* mpuCheckDataReady returns false; when the resting-level guard is compiled
\* in and the line reads asserted, arming is aborted with no handler
\* registered.
C15_InertWithoutLine ==
    /\ phase = "run" /\ gyro.mpuIntExtiConfig = "NULL" =>
           /\ gyro.exti = "NULL"
           /\ op = "mpuGyroInit" => calls = <<>> /\ writes = <<>>
    /\ ArmingAborted =>
           /\ "ENSURE_MPU_DATA_READY_IS_LOW" \in build
           /\ gyro.exti = "NULL"
           /\ ~Called("EXTIHandlerInit")
           /\ ~Called("EXTIConfig")
           /\ ~Called("EXTIEnable")
    /\ gyro.exti = "NULL" =>
           /\ ~gyro.dataReady
           /\ edges = 0 /\ trues = 0
           /\ pollPc = "idle" /\ isrPc = "idle"
           /\ op = "mpuCheckDataReady" => ret = "false"

C15_Witness ==
    /\ phase = "run"
    /\ gyro.mpuIntExtiConfig = "NULL"
    /\ op = "mpuCheckDataReady" /\ ret = "false"
    /\ {"USE_MPU_DATA_READY_SIGNAL", "USE_EXTI"} \subseteq build

\* C16: when the primary transport acknowledges, the legacy pattern does not
\* match and the masked identity byte is neither constant, mpuDetect returns
\* with the sensor still MPU_NONE, without failureMode and without
\* mpu6050FindRevision; when it is the extended constant the sensor is
\* MPU_65xx_I2C, also without mpu6050FindRevision.
C16_Unrecognised ==
    PrimaryAcked /\ ~LegacyMatched =>
        /\ Masked(IdentityByte) \notin
               {MPUx0x0_WHO_AM_I_CONST, MPU6500_WHO_AM_I_CONST} =>
               /\ phase = "detected"
               /\ gyro.mpuDetectionResult.sensor = "MPU_NONE"
               /\ WriteCount("sensor") = 0
               /\ ~Called("failureMode")
               /\ CallsAt("MPU_RA_XA_OFFS_H") = <<>>
               /\ CallsAt("MPU_RA_PRODUCT_ID") = <<>>
        /\ Masked(IdentityByte) = MPU6500_WHO_AM_I_CONST =>
               /\ phase = "detected"
               /\ gyro.mpuDetectionResult.sensor = "MPU_65xx_I2C"
               /\ ~Called("failureMode")
               /\ CallsAt("MPU_RA_XA_OFFS_H") = <<>>
               /\ CallsAt("MPU_RA_PRODUCT_ID") = <<>>

C16_Witness ==
    /\ PrimaryAcked /\ ~LegacyMatched
    /\ IdentityByte = 106
    /\ phase = "detected"
    /\ gyro.mpuDetectionResult.sensor = "MPU_NONE"

\* the two's-complement value of the 16-bit word hi:lo, by arithmetic
Signed16(hi, lo) ==
    IF 256 * hi + lo >= 32768 THEN 256 * hi + lo - 65536 ELSE 256 * hi + lo

BigEndianXYZ(b) ==
    << Signed16(b[1], b[2]), Signed16(b[3], b[4]), Signed16(b[5], b[6]) >>

\* C17: an acknowledged mpuGyroRead or mpuAccRead stores the three signed
\* big-endian 16-bit values of its 6-byte burst, in X, Y, Z order, and
\* returns true; the gyro burst starts at the table's gyroReadXRegister (the
\* legacy register for MPU_3050, the standard one otherwise) and the
\* accelerometer burst always starts at MPU_RA_ACCEL_XOUT_H.
C17_BigEndianSamples ==
    /\ op = "mpuGyroRead" /\ calls[1].ack =>
           /\ ret = "true"
           /\ calls[1].len = 6
           /\ gyro.gyroADCRaw = BigEndianXYZ(calls[1].data)
           /\ calls[1].reg = gyro.mpuConfiguration.gyroReadXRegister
           /\ calls[1].reg =
                  IF gyro.mpuDetectionResult.sensor = "MPU_3050"
                  THEN "MPU3050_GYRO_OUT" ELSE "MPU_RA_GYRO_XOUT_H"
    /\ op = "mpuAccRead" /\ calls[1].ack =>
           /\ ret = "true"
           /\ calls[1].len = 6
           /\ acc.ADCRaw = BigEndianXYZ(calls[1].data)
           /\ calls[1].reg = "MPU_RA_ACCEL_XOUT_H"

C17_Witness ==
    /\ op = "mpuGyroRead" /\ ret = "true"
    /\ calls[1].data = <<18, 52, 128, 0, 255, 255>>
    /\ gyro.gyroADCRaw = <<4660, -32768, -1>>
    /\ calls[1].reg = "MPU3050_GYRO_OUT"
    /\ acc.ADCRaw = <<32767, -2, 1>>

C18_NoRetry ==
    /\ AfterDetect =>
           /\ phase \in {"detected", "fatal"}
           /\ phase = "fatal" <=> Called("failureMode")
           /\ CallCount("failureMode") <= 1
           /\ \A i, j \in 1..Len(calls) :
                  i # j => <<calls[i].fn, calls[i].reg>> # <<calls[j].fn, calls[j].reg>>
    /\ op \in {"mpuGyroRead", "mpuAccRead"} =>
           /\ Len(calls) = 1
           /\ calls[1].len = 6
           /\ ret \in {"true", "false"}
           /\ ret = "false" <=> ~calls[1].ack

\* C18: for every combination of probe outcomes mpuDetect ends, by returning
\* or in the terminal failure state; it issues each probe at most once, and
\* each mpuGyroRead or mpuAccRead issues exactly one burst read and reports
\* at most one failure, with no retry.
C18_DetectEnds ==
    /\ []C18_NoRetry
    /\ [](phase = "boot" => ENABLED mpuDetect)
    /\ [][phase = "boot" =>
              op' = "mpuDetect" /\ phase' \in {"detected", "fatal"}]_vars

C18_Witness ==
    /\ op = "mpuAccRead" /\ ret = "false"
    /\ Len(calls) = 1 /\ ~calls[1].ack
    /\ gyro.mpuDetectionResult.sensor = "MPU_65xx_SPI"

C19_Step ==
    op' = "mpuCheckDataReady" /\ ret' = "true" =>
        /\ edgeSinceTrue
        /\ trues < edges
        /\ trues' = trues + 1

\* C19: no spurious data-ready.  Under every interleaving of edges and
\* polls, an edge between the test and the clear of a poll included, the
\* number of polls that returned true never exceeds the number of edges, and
\* a poll returns true only if an edge has fired since the previous poll that
\* returned true.
C19_NoSpuriousReady ==
    /\ [](trues + (IF gyro.dataReady THEN 1 ELSE 0) <= edges)
    /\ [][C19_Step]_vars

C19_Witness ==
    /\ op = "mpuCheckDataReady" /\ ret = "true"
    /\ trues = 1 /\ edges = 2
    /\ ~gyro.dataReady

\* C20: when the primary WHO_AM_I probe is acknowledged no secondary probe
\* is invoked in that run of mpuDetect, an unrecognised identity byte
\* included; the resolution is written only on the six-axis primary path and
\* every other outcome leaves it as it was.
C20_PrimaryPrecedence ==
    AfterDetect =>
        /\ PrimaryAcked => SpiCalls = <<>>
        /\ WriteCount("resolution") <= 1
        /\ WriteCount("resolution") = 1 => SixAxisPath
        /\ ~SixAxisPath => ResolutionUntouched
        /\ mpuDetectionResult.resolution = NoDetectionResult.resolution

C20_Witness ==
    /\ PrimaryAcked /\ ~LegacyMatched
    /\ Masked(IdentityByte) \notin {MPUx0x0_WHO_AM_I_CONST, MPU6500_WHO_AM_I_CONST}
    /\ "USE_GYRO_SPI_MPU6000" \in build
    /\ SpiCalls = <<>>
    /\ gyro.mpuDetectionResult.sensor = "MPU_NONE"
    /\ ResolutionUntouched

=============================================================================
